---- MODULE Spec2Model ----
(***************************************************************************)
(* The search service of src/src/server.py: search_string_in_file, its     *)
(* lazily built cache search_string_in_file_cached.cached_lines, and the   *)
(* handler threads that call them while the reference file changes on      *)
(* disk.                                                                   *)
(*                                                                         *)
(* Text is modelled as a sequence of characters, a line of the file as its *)
(* text without the terminator, and a line as Python hands it to the       *)
(* program (iteration over the file, readlines) as that text followed by   *)
(* the newline character.                                                  *)
(***************************************************************************)
EXTENDS Naturals, Sequences, FiniteSets, TLC

\* ------------------------------------------------------------------ bounds

\* Longest line of the reference file and longest query, in characters.
MaxLen == 2
\* Most lines the reference file holds.
MaxLines == 2
\* Most connections the listener is offered.
MaxConns == 3
\* Most queries of one session that are counted as passed to the search.
MaxServed == 2

\* ------------------------------------------------------------ text values

NL == "\n"
\* The characters text is made of: one letter, and the blank.
Chars == {"a", " "}
\* What str.strip() removes from both ends.
Whitespace == {" ", NL}

\* str.lower(), on the capital letters that occur.
Lower(c) ==
    CASE c = "E" -> "e" [] c = "X" -> "x" [] c = "I" -> "i" [] c = "T" -> "t"
      [] c = "Q" -> "q" [] c = "U" -> "u" [] c = "R" -> "r" [] OTHER -> c
LowerText(s) == [i \in 1..Len(s) |-> Lower(s[i])]

\* Every text of at most n characters.
TextsUpTo(n) == UNION {[1..k -> Chars] : k \in 0..n}
Strings == TextsUpTo(MaxLen)
\* Every list of at most n lines drawn from S.
FilesOver(S, n) == UNION {[1..k -> S] : k \in 0..n}

\* The handler threads, and the one caller of the sequential specifications.
Threads == {1, 2}
Caller == 1
\* The queries the concurrent clients send.
ClientQueries == {<<"a">>}
\* The lines the environment appends to the reference file while the server runs.
EditLines == {<<"a">>, <<" ", "a", "a", " ">>}

\* The configured linuxpath, as it appears in the error messages.
FILE_PATH == "200k.txt"

\* The function attribute cached_lines: absent until the first assignment.
NoAttr == [has |-> FALSE, lines |-> << >>]
Attr(ls) == [has |-> TRUE, lines |-> ls]
None == "none"
NoLines == << >>

\* -------------------------------------------------------------- str.strip

RECURSIVE LStrip(_)
LStrip(s) ==
    IF s # << >> /\ Head(s) \in Whitespace THEN LStrip(Tail(s)) ELSE s

RECURSIVE RStrip(_)
RStrip(s) ==
    IF s # << >> /\ s[Len(s)] \in Whitespace
        THEN RStrip(SubSeq(s, 1, Len(s) - 1))
        ELSE s

\* str.strip(): the text without its leading and trailing whitespace.
Strip(s) == RStrip(LStrip(s))

\* ------------------------------------------------------------ the file

\* The reference file on disk: missing, present without read permission,
\* present with bytes that are not UTF-8, or readable text.
OkFile(ls) == [st |-> "ok", lines |-> ls]
MissingFile == [st |-> "missing", lines |-> NoLines]
DeniedFile == [st |-> "denied", lines |-> NoLines]
UndecodableFile == [st |-> "undecodable", lines |-> NoLines]

\* os.path.exists(file_path)
PathExists(d) == d.st # "missing"

\* str(e) of the exception open() or the read raises on a file that is not
\* readable text.
OpenErrorText(d) ==
    CASE d.st = "missing" ->
            "[Errno 2] No such file or directory: '" \o FILE_PATH \o "'"
      [] d.st = "denied" ->
            "[Errno 13] Permission denied: '" \o FILE_PATH \o "'"
      [] d.st = "undecodable" ->
            "'utf-8' codec can't decode byte 0xff in position 0: invalid start byte"

\* The lines as iteration over the open file, or readlines(), yields them:
\* each with its terminator.
ReadLines(d) == [i \in 1..Len(d.lines) |-> d.lines[i] \o <<NL>>]

\* ------------------------------------------------------------ the search

\* The comparison without the strip: line == query.
LineMatchesUntrimmed(line, q) == line = q

\* Containment in place of equality: query in line.
LineContains(line, q) ==
    \E i \in 1..(Len(line) + 1) : \E j \in (i - 1)..Len(line) :
        SubSeq(line, i, j) = q

\* The comparison of the scanning loops: line.strip() == query.
LineMatches(line, q) == Strip(line) = q

\* for line in lines: if line.strip() == query: return "STRING EXISTS"
\* return "STRING NOT FOUND"
RECURSIVE ScanLines(_, _)
ScanLines(ls, q) ==
    IF ls = << >> THEN "STRING NOT FOUND"
    ELSE IF LineMatches(Head(ls), q) THEN "STRING EXISTS"
    ELSE ScanLines(Tail(ls), q)

\* The except clauses of search_string_in_file around the reread branch.
RereadError(d) ==
    IF d.st = "denied"
        THEN "ERROR: Permission denied when accessing '" \o FILE_PATH \o "'."
        ELSE "ERROR: " \o OpenErrorText(d)

\* The except clause of search_string_in_file_cached around the build.
CachedReadError(d) == "ERROR: Failed to read file: " \o OpenErrorText(d)

\* ------------------------------------------------------------------ state

VARIABLES
    disk,            \* the reference file on disk
    cached_lines,    \* the attribute search_string_in_file_cached.cached_lines
    REREAD_ON_QUERY, \* the configured policy of the running server
    pc,              \* per thread: where it is in search_string_in_file
    query,           \* per thread: the query argument of its call
    reread,          \* per thread: the reread_on_query argument of its call
    buf,             \* per thread: the list readlines() returned, not yet stored
    out,             \* per thread: the outcome its last call returned
    hadCache,        \* per thread: whether the cache was built when its call began
    prevSame,        \* per thread: outcome of the call before, if it was the same call
    prevOther,       \* per thread: outcome of the call before, if same query, other mode
    whole,           \* per thread: the lines the file held when its readlines() ran
    touched,         \* per thread: whether the file changed during its call
    cacheSrc,        \* the file content of the read that cached_lines was stored from
    lastOp,          \* the last change made to the file
    hpc,             \* the session: where its handler is in handle_client
    peer,            \* the session: the client's end of the connection
    inbuf,           \* the session: bytes the client sent, not yet received
    data,            \* the session: the handler's variable data
    response,        \* the session: the handler's variable response
    connOpen,        \* the session: conn.close() has not been called
    owed,            \* the session: messages read and not answered so far
    greetings,       \* the session: how many times the greeting was written
    firstWrite,      \* the session: what the first line written to the client was
    lastSent,        \* the session: the last response line written to the client
    lastRead,        \* the session: what the last conn.recv(1024) came to
    listener,        \* start_server: where it is, and the connection it holds
    sessions,        \* per connection: what became of it
    SSL_ENABLED,     \* the configured TLS switch of the running server
    path,            \* per thread: the file_path argument of its call
    otherFile,       \* a second file, at another path than FILE_PATH
    served,          \* the session: queries passed to the search so far
    overdue,         \* the session: the time budget of the running search is spent
    logFailed,       \* the session: the last append to server_log.txt raised
    config,          \* config.ini as load_config finds it
    loaded,          \* what load_config returned to start_server
    algoIn,          \* the arguments the search algorithms are run on
    algoOut          \* what each of the search algorithms returned

pathVars == <<path, otherFile>>
searchVars == <<disk, cached_lines, REREAD_ON_QUERY, pc, query, reread, buf, out,
                hadCache, prevSame, prevOther, whole, touched, cacheSrc, lastOp,
                pathVars>>
ghostVars == <<served, overdue, logFailed>>
sessionVars == <<hpc, peer, inbuf, data, response, connOpen, owed, greetings,
                 firstWrite, lastSent, lastRead, ghostVars>>
configVars == <<config, loaded>>
listenerVars == <<listener, sessions, SSL_ENABLED, configVars>>
algoVars == <<algoIn, algoOut>>

vars == <<searchVars, sessionVars, listenerVars, algoVars>>

InCall(t) == pc[t] \notin {"idle", "done"}

\* A path other than FILE_PATH, and the file found at a path.
OtherPath == "other.txt"
Paths == {FILE_PATH, OtherPath}
FileAt(p) == IF p = FILE_PATH THEN disk ELSE otherFile

\* ----------------------------------------------------- search_string_in_file

\* The call and its first test: if not query.strip(): return "ERROR: EMPTY QUERY"
CallAt(t, p, q, m) ==
    /\ ~InCall(t)
    /\ path' = [path EXCEPT ![t] = p]
    /\ query' = [query EXCEPT ![t] = q]
    /\ reread' = [reread EXCEPT ![t] = m]
    /\ hadCache' = [hadCache EXCEPT ![t] = cached_lines.has]
    /\ prevSame' = [prevSame EXCEPT ![t] =
            IF pc[t] = "done" /\ ~touched[t] /\ path[t] = p /\ query[t] = q
                                /\ reread[t] = m
                THEN out[t] ELSE None]
    /\ prevOther' = [prevOther EXCEPT ![t] =
            IF pc[t] = "done" /\ ~touched[t] /\ path[t] = p /\ query[t] = q
                                /\ reread[t] # m
                THEN out[t] ELSE None]
    /\ touched' = [touched EXCEPT ![t] = FALSE]
    /\ IF Strip(q) = << >>
          THEN /\ out' = [out EXCEPT ![t] = "ERROR: EMPTY QUERY"]
               /\ pc' = [pc EXCEPT ![t] = "done"]
          ELSE /\ out' = [out EXCEPT ![t] = None]
               /\ pc' = [pc EXCEPT ![t] = "exists"]
    /\ UNCHANGED <<disk, cached_lines, REREAD_ON_QUERY, buf, whole, cacheSrc, lastOp>>
    /\ UNCHANGED otherFile

\* The call as the server makes it: on FILE_PATH.
Call(t, q, m) == CallAt(t, FILE_PATH, q, m)

\* if not os.path.exists(file_path): return "ERROR: FILE NOT FOUND"
\* and the branch on reread_on_query.
CheckExists(t) ==
    /\ pc[t] = "exists"
    /\ IF ~PathExists(FileAt(path[t]))
          THEN /\ out' = [out EXCEPT ![t] = "ERROR: FILE NOT FOUND"]
               /\ pc' = [pc EXCEPT ![t] = "done"]
          ELSE /\ pc' = [pc EXCEPT ![t] = IF reread[t] THEN "read" ELSE "hasattr"]
               /\ UNCHANGED out
    /\ UNCHANGED <<disk, cached_lines, REREAD_ON_QUERY, query, reread, buf,
                   hadCache, prevSame, prevOther, whole, touched, cacheSrc, lastOp>>
    /\ UNCHANGED <<pathVars, sessionVars, listenerVars, algoVars>>

\* The reread branch answering from the cached list when there is one.
RereadScanFromCache(t) ==
    /\ pc[t] = "read"
    /\ out' = [out EXCEPT ![t] =
            IF cached_lines.has THEN ScanLines(cached_lines.lines, query[t])
            ELSE IF FileAt(path[t]).st = "ok" THEN ScanLines(ReadLines(FileAt(path[t])), query[t])
            ELSE RereadError(FileAt(path[t]))]
    /\ pc' = [pc EXCEPT ![t] = "done"]
    /\ UNCHANGED <<disk, cached_lines, REREAD_ON_QUERY, query, reread, buf,
                   hadCache, prevSame, prevOther, whole, touched, cacheSrc, lastOp>>
    /\ UNCHANGED <<pathVars, sessionVars, listenerVars, algoVars>>

\* The reread branch: open the file, scan it line by line, and the except
\* clauses that turn a failure into an outcome.
RereadScan(t) ==
    /\ pc[t] = "read"
    /\ out' = [out EXCEPT ![t] =
            IF FileAt(path[t]).st = "ok" THEN ScanLines(ReadLines(FileAt(path[t])), query[t])
                              ELSE RereadError(FileAt(path[t]))]
    /\ pc' = [pc EXCEPT ![t] = "done"]
    /\ UNCHANGED <<disk, cached_lines, REREAD_ON_QUERY, query, reread, buf,
                   hadCache, prevSame, prevOther, whole, touched, cacheSrc, lastOp>>
    /\ UNCHANGED <<pathVars, sessionVars, listenerVars, algoVars>>

\* ---------------------------------------------- search_string_in_file_cached

\* if not hasattr(search_string_in_file_cached, "cached_lines"):
CheckCache(t) ==
    /\ pc[t] = "hasattr"
    /\ pc' = [pc EXCEPT ![t] = IF cached_lines.has THEN "scan" ELSE "build"]
    /\ UNCHANGED <<disk, cached_lines, REREAD_ON_QUERY, query, reread, buf, out,
                   hadCache, prevSame, prevOther, whole, touched, cacheSrc, lastOp>>
    /\ UNCHANGED <<pathVars, sessionVars, listenerVars, algoVars>>

\* The build that caches an empty list when the read fails.
BuildReadCachingFailure(t) ==
    /\ pc[t] = "build"
    /\ IF FileAt(path[t]).st = "ok"
          THEN /\ buf' = [buf EXCEPT ![t] = ReadLines(FileAt(path[t]))]
               /\ whole' = [whole EXCEPT ![t] = FileAt(path[t]).lines]
               /\ pc' = [pc EXCEPT ![t] = "assign"]
               /\ UNCHANGED <<out, cached_lines, cacheSrc>>
          ELSE /\ out' = [out EXCEPT ![t] = CachedReadError(FileAt(path[t]))]
               /\ cached_lines' = Attr(NoLines)
               /\ cacheSrc' = NoLines
               /\ pc' = [pc EXCEPT ![t] = "done"]
               /\ UNCHANGED <<buf, whole>>
    /\ UNCHANGED <<disk, REREAD_ON_QUERY, query, reread,
                   hadCache, prevSame, prevOther, touched, lastOp>>
    /\ UNCHANGED <<pathVars, sessionVars, listenerVars, algoVars>>

\* with open(...) as file: file.readlines(), the right-hand side of the
\* assignment, and the except clause around it.
BuildRead(t) ==
    /\ pc[t] = "build"
    /\ IF FileAt(path[t]).st = "ok"
          THEN /\ buf' = [buf EXCEPT ![t] = ReadLines(FileAt(path[t]))]
               /\ whole' = [whole EXCEPT ![t] = FileAt(path[t]).lines]
               /\ pc' = [pc EXCEPT ![t] = "assign"]
               /\ UNCHANGED out
          ELSE /\ out' = [out EXCEPT ![t] = CachedReadError(FileAt(path[t]))]
               /\ pc' = [pc EXCEPT ![t] = "done"]
               /\ UNCHANGED <<buf, whole>>
    /\ UNCHANGED <<disk, cached_lines, REREAD_ON_QUERY, query, reread,
                   hadCache, prevSame, prevOther, touched, cacheSrc, lastOp>>
    /\ UNCHANGED <<pathVars, sessionVars, listenerVars, algoVars>>

\* The store of a list that lacks the last line read.
AssignCacheTruncated(t) ==
    /\ pc[t] = "assign"
    /\ cached_lines' = Attr(SubSeq(buf[t], 1, Len(buf[t]) - 1))
    /\ cacheSrc' = whole[t]
    /\ buf' = [buf EXCEPT ![t] = NoLines]
    /\ whole' = [whole EXCEPT ![t] = NoLines]
    /\ pc' = [pc EXCEPT ![t] = "scan"]
    /\ UNCHANGED <<disk, REREAD_ON_QUERY, query, reread, out,
                   hadCache, prevSame, prevOther, touched, lastOp>>
    /\ UNCHANGED <<pathVars, sessionVars, listenerVars, algoVars>>

\* The store of the assignment: search_string_in_file_cached.cached_lines = ...
AssignCache(t) ==
    /\ pc[t] = "assign"
    /\ cached_lines' = Attr(buf[t])
    /\ cacheSrc' = whole[t]
    /\ buf' = [buf EXCEPT ![t] = NoLines]
    /\ whole' = [whole EXCEPT ![t] = NoLines]
    /\ pc' = [pc EXCEPT ![t] = "scan"]
    /\ UNCHANGED <<disk, REREAD_ON_QUERY, query, reread, out,
                   hadCache, prevSame, prevOther, touched, lastOp>>
    /\ UNCHANGED <<pathVars, sessionVars, listenerVars, algoVars>>

\* for line in search_string_in_file_cached.cached_lines: ... the scan of the
\* cached list.
ScanCache(t) ==
    /\ pc[t] = "scan"
    /\ cached_lines.has
    /\ out' = [out EXCEPT ![t] = ScanLines(cached_lines.lines, query[t])]
    /\ pc' = [pc EXCEPT ![t] = "done"]
    /\ UNCHANGED <<disk, cached_lines, REREAD_ON_QUERY, query, reread, buf,
                   hadCache, prevSame, prevOther, whole, touched, cacheSrc, lastOp>>
    /\ UNCHANGED <<pathVars, sessionVars, listenerVars, algoVars>>

\* ------------------------------------------------------------ handle_client

\* The handler's call: search_string_in_file(FILE_PATH, data, REREAD_ON_QUERY),
\* made when it has read a query and no call of its own is under way.
ClientCall(t, q) ==
    /\ pc[t] = "idle"
    /\ Call(t, q, REREAD_ON_QUERY)

\* conn.sendall(response): the handler has the outcome, sends it and goes
\* back to reading the next query.
Respond(t) ==
    /\ pc[t] = "done"
    /\ pc' = [pc EXCEPT ![t] = "idle"]
    /\ query' = [query EXCEPT ![t] = << >>]
    /\ reread' = [reread EXCEPT ![t] = FALSE]
    /\ out' = [out EXCEPT ![t] = None]
    /\ hadCache' = [hadCache EXCEPT ![t] = FALSE]
    /\ prevSame' = [prevSame EXCEPT ![t] = None]
    /\ prevOther' = [prevOther EXCEPT ![t] = None]
    /\ touched' = [touched EXCEPT ![t] = FALSE]
    /\ UNCHANGED <<disk, cached_lines, REREAD_ON_QUERY, buf, whole, cacheSrc, lastOp>>
    /\ UNCHANGED pathVars

\* ------------------------------------------------- handle_client, a session

\* b"Hello, you are connected to the server!\n"
Greeting == "Hello, you are connected to the server!\n"

\* f"{response}\n": the line a response is written as.
ResponseLine(r) == r \o "\n"

\* A byte that is no UTF-8 text, and the zero byte.
BadByte == "0xff"
NUL == "0x00"

\* The buffer size of conn.recv(1024).
RecvSize == 1024

\* bytes.rstrip(b'\x00')
RECURSIVE RStripNul(_)
RStripNul(bs) ==
    IF bs # << >> /\ bs[Len(bs)] = NUL
        THEN RStripNul(SubSeq(bs, 1, Len(bs) - 1))
        ELSE bs

\* bytes.decode("utf-8"): it raises UnicodeDecodeError on a byte that is no
\* UTF-8, and gives every ASCII byte as the character of that code.
Decodable(bs) == \A i \in 1..Len(bs) : bs[i] # BadByte
Utf8Char(b) == IF b = NUL THEN "\\0" ELSE b
Decode(bs) == [i \in 1..Len(bs) |-> Utf8Char(bs[i])]

\* What one conn.recv(1024) returns of the bytes waiting, and what it leaves.
Received(bs) == SubSeq(bs, 1, IF Len(bs) < RecvSize THEN Len(bs) ELSE RecvSize)
LeftOver(bs) == SubSeq(bs, Len(Received(bs)) + 1, Len(bs))

\* What a read came to: how the bytes returned relate to the message the
\* client sent, and what was in them.
NoRead == [frame |-> "none", content |-> "none"]
ReadOf(bs, before) ==
    [frame |-> IF bs = << >> THEN "eof"
               ELSE IF Len(bs) > RecvSize THEN "cut"
               ELSE IF before.frame = "cut" THEN "rest"
               ELSE "whole",
     content |-> IF bs = << >> THEN "none"
                 ELSE IF ~Decodable(RStripNul(Received(bs))) THEN "undecodable"
                 ELSE IF Strip(Decode(RStripNul(Received(bs)))) = << >> THEN "blank"
                 ELSE "text"]

\* break, then conn.close() after the loop.
BreakAndClose ==
    /\ hpc' = "closed"
    /\ connOpen' = FALSE

\* The greeting left out: the handler goes straight to its loop.
HandlerGreetSilent ==
    /\ hpc = "greet"
    /\ hpc' = "recv"
    /\ UNCHANGED <<peer, inbuf, data, response, connOpen, owed, greetings,
                   firstWrite, lastSent, lastRead>>
    /\ UNCHANGED ghostVars
    /\ UNCHANGED <<searchVars, listenerVars, algoVars>>

\* conn.sendall(b"Hello, you are connected to the server!\n"), before the loop
\* and outside its try: when the write raises, the exception leaves
\* handle_client and conn.close() is never reached.
HandlerGreet ==
    /\ hpc = "greet"
    /\ \/ /\ peer # "reset"
          /\ greetings' = greetings + 1
          /\ firstWrite' = IF firstWrite = None THEN "greeting" ELSE firstWrite
          /\ hpc' = "recv"
       \/ /\ peer # "up"
          /\ hpc' = "died"
          /\ UNCHANGED <<greetings, firstWrite>>
    /\ UNCHANGED <<peer, inbuf, data, response, connOpen, owed, lastSent, lastRead>>
    /\ UNCHANGED ghostVars
    /\ UNCHANGED <<searchVars, listenerVars, algoVars>>

\* data = conn.recv(1024).rstrip(b'\x00').decode("utf-8").strip(), and the
\* test if data == "". recv blocks while nothing waits and the peer is
\* there, returns b"" once the peer has closed, raises ConnectionResetError
\* once the peer has reset; the except clauses break out of the loop.
HandlerRecv ==
    /\ hpc = "recv"
    /\ IF peer = "reset"
         THEN /\ BreakAndClose
              /\ lastRead' = [frame |-> "reset", content |-> "none"]
              /\ UNCHANGED <<inbuf, data, response, owed>>
         ELSE /\ inbuf # << >> \/ peer = "closed"
              /\ inbuf' = LeftOver(inbuf)
              /\ owed' = owed + 1
              /\ lastRead' = ReadOf(inbuf, lastRead)
              /\ IF ~Decodable(RStripNul(Received(inbuf)))
                   THEN /\ BreakAndClose
                        /\ UNCHANGED <<data, response>>
                   ELSE /\ data' = Strip(Decode(RStripNul(Received(inbuf))))
                        /\ response' = IF data' = << >> THEN "ERROR: EMPTY QUERY"
                                                        ELSE None
                        /\ hpc' = IF data' = << >> THEN "send" ELSE "search"
                        /\ UNCHANGED connOpen
    /\ UNCHANGED <<peer, greetings, firstWrite, lastSent>>
    /\ UNCHANGED ghostVars
    /\ UNCHANGED <<searchVars, listenerVars, algoVars>>

\* response = search_string_in_file(FILE_PATH, data, REREAD_ON_QUERY): the call.
HandlerSearch ==
    /\ hpc = "search"
    /\ ClientCall(Caller, data)
    /\ hpc' = "searching"
    /\ served' = IF served < MaxServed THEN served + 1 ELSE served
    /\ UNCHANGED <<peer, inbuf, data, response, connOpen, owed, greetings,
                   firstWrite, lastSent, lastRead>>
    /\ UNCHANGED <<overdue, logFailed>>
    /\ UNCHANGED <<listenerVars, algoVars>>

\* An outcome that begins with ERROR: raised as an exception in the handler.
HandlerResultRaising ==
    /\ hpc = "searching"
    /\ Respond(Caller)
    /\ IF out[Caller] \in {"STRING EXISTS", "STRING NOT FOUND"}
         THEN /\ response' = out[Caller]
              /\ hpc' = "send"
              /\ UNCHANGED connOpen
         ELSE /\ BreakAndClose
              /\ UNCHANGED response
    /\ UNCHANGED <<peer, inbuf, data, owed, greetings, firstWrite, lastSent, lastRead>>
    /\ UNCHANGED <<served, logFailed>>
    /\ overdue' = FALSE
    /\ UNCHANGED <<listenerVars, algoVars>>

\* log_search without its try: a failure to append to the log is an exception
\* in the handler's loop.
HandlerResultLogRaising ==
    /\ hpc = "searching"
    /\ Respond(Caller)
    /\ \E failed \in BOOLEAN :
          /\ logFailed' = failed
          /\ IF failed
               THEN BreakAndClose /\ UNCHANGED response
               ELSE /\ response' = out[Caller]
                    /\ hpc' = "send"
                    /\ UNCHANGED connOpen
    /\ UNCHANGED <<peer, inbuf, data, owed, greetings, firstWrite, lastSent, lastRead>>
    /\ UNCHANGED served
    /\ overdue' = FALSE
    /\ UNCHANGED <<listenerVars, algoVars>>

\* The call returns: response holds the outcome, and log_search(...) is
\* called, which appends to server_log.txt inside a try: the append is done,
\* or it raises and log_search prints the error and returns.
HandlerResult ==
    /\ hpc = "searching"
    /\ Respond(Caller)
    /\ response' = out[Caller]
    /\ hpc' = "send"
    /\ logFailed' \in BOOLEAN
    /\ UNCHANGED <<peer, inbuf, data, connOpen, owed, greetings, firstWrite,
                   lastSent, lastRead>>
    /\ UNCHANGED served
    /\ overdue' = FALSE
    /\ UNCHANGED <<listenerVars, algoVars>>

\* The session closed after an ERROR response was written.
HandlerSendClosing ==
    /\ hpc = "send"
    /\ peer = "up"
    /\ lastSent' = ResponseLine(response)
    /\ firstWrite' = IF firstWrite = None THEN "response" ELSE firstWrite
    /\ owed' = owed - 1
    /\ response' = None
    /\ IF response \in {"STRING EXISTS", "STRING NOT FOUND"}
         THEN hpc' = "recv" /\ UNCHANGED connOpen
         ELSE BreakAndClose
    /\ UNCHANGED <<peer, inbuf, data, greetings, lastRead>>
    /\ UNCHANGED <<served, overdue>>
    /\ logFailed' = FALSE
    /\ UNCHANGED <<searchVars, listenerVars, algoVars>>

\* conn.sendall(f"{response}\n".encode("utf-8")), the last statement of the
\* loop body: written, the handler reads again; raised (the peer is gone),
\* the except clauses break out of the loop.
HandlerSend ==
    /\ hpc = "send"
    /\ \/ /\ peer # "reset"
          /\ lastSent' = ResponseLine(response)
          /\ firstWrite' = IF firstWrite = None THEN "response" ELSE firstWrite
          /\ owed' = owed - 1
          /\ response' = None
          /\ hpc' = "recv"
          /\ UNCHANGED connOpen
       \/ /\ peer # "up"
          /\ BreakAndClose
          /\ UNCHANGED <<lastSent, firstWrite, owed, response>>
    /\ UNCHANGED <<peer, inbuf, data, greetings, lastRead>>
    /\ UNCHANGED <<served, overdue>>
    /\ logFailed' = FALSE
    /\ UNCHANGED <<searchVars, listenerVars, algoVars>>

\* Time passes while the handler is inside search_string_in_file: a time
\* budget for the search, were there one, is spent before the call returns.
BudgetElapses ==
    /\ hpc = "searching"
    /\ pc[Caller] # "done"
    /\ ~overdue
    /\ overdue' = TRUE
    /\ UNCHANGED <<hpc, peer, inbuf, data, response, connOpen, owed, greetings,
                   firstWrite, lastSent, lastRead, served, logFailed>>
    /\ UNCHANGED <<searchVars, listenerVars, algoVars>>

\* ----------------------------------------------- the client of the session

Alive == hpc \notin {"none", "closed", "died"}

\* A message longer than one recv returns.
Oversize == [i \in 1..(RecvSize + 1) |-> "a"]

\* Messages that fit in one read: a query, a blank line, bytes that are no
\* UTF-8, the word EXIT.
ShortMessages ==
    {<<"a", NL>>, <<" ", NL>>, <<BadByte>>, <<"E", "X", "I", "T", NL>>}

\* The messages a client sends: those, and a message too long for one read.
ClientMessages == ShortMessages \cup {Oversize}

\* The client writes one of the given messages while nothing of its waits.
ClientSends(messages) ==
    \E m \in messages :
        /\ Alive
        /\ peer = "up"
        /\ inbuf = << >>
        /\ inbuf' = m
        /\ UNCHANGED <<hpc, peer, data, response, connOpen, owed, greetings,
                       firstWrite, lastSent, lastRead>>
        /\ UNCHANGED ghostVars
        /\ UNCHANGED <<searchVars, listenerVars, algoVars>>

ClientSend == ClientSends(ClientMessages)

ClientSendShort == ClientSends(ShortMessages)

\* The client closes its end: the handler's reads return b"" from then on.
ClientClose ==
    /\ Alive
    /\ peer = "up"
    /\ peer' = "closed"
    /\ UNCHANGED <<hpc, inbuf, data, response, connOpen, owed, greetings,
                   firstWrite, lastSent, lastRead>>
    /\ UNCHANGED ghostVars
    /\ UNCHANGED <<searchVars, listenerVars, algoVars>>

\* The connection is reset: what waited is lost, reads and writes raise.
ClientReset ==
    /\ Alive
    /\ peer # "reset"
    /\ peer' = "reset"
    /\ inbuf' = << >>
    /\ UNCHANGED <<hpc, data, response, connOpen, owed, greetings,
                   firstWrite, lastSent, lastRead>>
    /\ UNCHANGED ghostVars
    /\ UNCHANGED <<searchVars, listenerVars, algoVars>>

\* ------------------------------------------------------------ start_server

Conns == 1..MaxConns

\* start_server is at its accept call, the listening socket open.
Listening == [at |-> "accept", conn |-> 0, cause |-> None, sock |-> "open"]

\* The except clause that leaves the listening socket as it is.
StoppedLeaking(why) == [at |-> "stopped", conn |-> 0, cause |-> why, sock |-> "open"]

\* except OSError / except KeyboardInterrupt, then finally: server.close().
Stopped(why) == [at |-> "stopped", conn |-> 0, cause |-> why, sock |-> "closed"]

\* ---- load_config

\* A key of the DEFAULT section: absent, or present with its text.
NoKey == [has |-> FALSE, text |-> << >>]
Key(v) == [has |-> TRUE, text |-> v]
\* config["DEFAULT"].get(key, default)
Get(k, default) == IF k.has THEN k.text ELSE default

\* The texts a flag of the configuration file is given as.
FlagTexts ==
    {<<"T", "r", "u", "e">>, <<" ", "T", "R", "U", "E", " ">>,
     <<"F", "a", "l", "s", "e">>}
\* The paths the configuration names.
CertPath == "server.crt"
KeyPath == "server.key"

\* config.ini as it may be found: not there, there and not parseable, or
\* there with its keys; files is the set of paths that exist on disk.
ConfigsWithKeys ==
    [exists : {"ok"},
     linuxpath : {"", FILE_PATH},
     reread : {NoKey} \cup {Key(v) : v \in FlagTexts},
     ssl : {NoKey} \cup {Key(v) : v \in FlagTexts},
     certfile : {"", CertPath},
     keyfile : {"", KeyPath},
     files : SUBSET {FILE_PATH, CertPath, KeyPath}]
BareConfig(e) ==
    [exists |-> e, linuxpath |-> "", reread |-> NoKey, ssl |-> NoKey,
     certfile |-> "", keyfile |-> "", files |-> {}]
Configs == ConfigsWithKeys \cup {BareConfig("missing"), BareConfig("unparseable")}

\* .strip().lower() == "true"
IsTrue(v) == LowerText(Strip(v)) = <<"t", "r", "u", "e">>

\* return None, False, False, None, None
InvalidConfig ==
    [file_path |-> None, reread_on_query |-> FALSE, ssl_enabled |-> FALSE,
     certfile |-> None, keyfile |-> None, raised |-> FALSE]
\* config.read(config_path) raising configparser.Error: nothing is returned.
ConfigRaised == [InvalidConfig EXCEPT !.raised = TRUE]

\* An invalid configuration taken for a valid one: the values as read.
LoadConfigUnchecked(c) ==
    [file_path |-> c.linuxpath,
     reread_on_query |-> IsTrue(Get(c.reread, <<"F", "a", "l", "s", "e">>)),
     ssl_enabled |-> IsTrue(Get(c.ssl, <<"F", "a", "l", "s", "e">>)),
     certfile |-> c.certfile, keyfile |-> c.keyfile, raised |-> FALSE]

\* load_config(): linuxpath "" stands for the key not being there (KeyError).
LoadConfig(c) ==
    IF c.exists = "missing" THEN InvalidConfig
    ELSE IF c.exists = "unparseable" THEN ConfigRaised
    ELSE IF c.linuxpath = "" THEN InvalidConfig
    ELSE IF c.linuxpath \notin c.files THEN InvalidConfig
    ELSE IF /\ IsTrue(Get(c.ssl, <<"F", "a", "l", "s", "e">>))
            /\ (c.certfile \notin c.files \/ c.keyfile \notin c.files)
         THEN InvalidConfig
    ELSE [file_path |-> c.linuxpath,
          reread_on_query |-> IsTrue(Get(c.reread, <<"F", "a", "l", "s", "e">>)),
          ssl_enabled |-> IsTrue(Get(c.ssl, <<"F", "a", "l", "s", "e">>)),
          certfile |-> c.certfile, keyfile |-> c.keyfile, raised |-> FALSE]

\* start_server before load_config, no socket yet.
NotStarted == [at |-> "off", conn |-> 0, cause |-> None, sock |-> "none"]

\* FILE_PATH, REREAD_ON_QUERY, SSL_ENABLED, CERTFILE, KEYFILE = load_config()
\* and if FILE_PATH is None: return. An exception of load_config leaves
\* start_server, which has no try around the call.
StartServer ==
    /\ listener.at = "off"
    /\ loaded' = LoadConfig(config)
    /\ SSL_ENABLED' = loaded'.ssl_enabled
    /\ listener' = [listener EXCEPT !.at =
                       IF loaded'.raised THEN "crashed"
                       ELSE IF loaded'.file_path = None THEN "returned"
                       ELSE "init",
                     !.cause = IF loaded'.raised THEN "configparser.Error" ELSE None]
    /\ UNCHANGED <<sessions, config>>
    /\ UNCHANGED <<searchVars, sessionVars, algoVars>>

\* socket.socket(), bind, listen, and with SSL_ENABLED the SSL context and
\* load_cert_chain, inside the try. An OSError of socket.socket() finds the
\* name server unbound in finally: server.close(), and that error leaves
\* start_server; an OSError after it (the address in use, a certificate that
\* does not load) is caught and the socket closed.
ListenerBind ==
    /\ listener.at = "init"
    /\ \/ listener' = Listening
       \/ listener' = Stopped("OSError")
       \/ listener' = [listener EXCEPT !.at = "crashed", !.cause = "UnboundLocalError"]
    /\ UNCHANGED <<sessions, SSL_ENABLED, configVars>>
    /\ UNCHANGED <<searchVars, sessionVars, algoVars>>

\* The next connection to arrive.
NextConn(c) == sessions[c] = "none" /\ \A d \in 1..(c - 1) : sessions[d] # "none"

\* threading.Thread(target=handle_client, args=(conn, addr), daemon=True).start()
Spawned(c) == [sessions EXCEPT ![c] = "open"]

\* conn, addr = server.accept(): a connection arrives, and with TLS off its
\* handler thread is started; or accept raises OSError, which the clause
\* except OSError after the loop catches, and finally closes the listener.
ListenerAccept ==
    /\ listener.at = "accept"
    /\ \/ \E c \in Conns :
             /\ NextConn(c)
             /\ IF SSL_ENABLED
                  THEN /\ listener' = [at |-> "wrap", conn |-> c, cause |-> None, sock |-> "open"]
                       /\ sessions' = [sessions EXCEPT ![c] = "accepted"]
                  ELSE /\ sessions' = Spawned(c)
                       /\ UNCHANGED listener
       \/ /\ listener' = Stopped("OSError")
          /\ UNCHANGED sessions
    /\ UNCHANGED SSL_ENABLED
    /\ UNCHANGED <<searchVars, sessionVars, configVars, algoVars>>

\* conn = ssl_context.wrap_socket(conn, server_side=True), the handshake, in
\* the accepting thread: done, the handler thread is started; ssl.SSLError is
\* caught, the connection closed and the loop continued; a reset of the
\* connection is a ConnectionResetError, an OSError that is no ssl.SSLError,
\* caught only by except OSError after the loop.
ListenerWrap ==
    /\ listener.at = "wrap"
    /\ \/ /\ sessions' = Spawned(listener.conn)
          /\ listener' = Listening
       \/ /\ sessions' = [sessions EXCEPT ![listener.conn] = "refused"]
          /\ listener' = Listening
       \/ /\ listener' = Stopped("OSError")
          /\ UNCHANGED sessions
    /\ UNCHANGED SSL_ENABLED
    /\ UNCHANGED <<searchVars, sessionVars, configVars, algoVars>>

\* except KeyboardInterrupt, and finally: server.close().
ListenerInterrupt ==
    /\ listener.at \in {"accept", "wrap"}
    /\ listener' = Stopped("KeyboardInterrupt")
    /\ UNCHANGED <<sessions, SSL_ENABLED>>
    /\ UNCHANGED <<searchVars, sessionVars, configVars, algoVars>>

\* A handler leaves its loop, on an error or a disconnection of its own
\* session, and closes its connection.
SessionEnds ==
    \E c \in Conns :
        /\ listener.at # "exited"
        /\ sessions[c] = "open"
        /\ sessions' = [sessions EXCEPT ![c] = "ended"]
        /\ UNCHANGED <<listener, SSL_ENABLED>>
        /\ UNCHANGED <<searchVars, sessionVars, configVars, algoVars>>

\* start_server() returns to the module's last statement and the process
\* ends: the handler threads are daemon threads and end with it.
ProcessExit ==
    /\ listener.at = "stopped"
    /\ listener' = [listener EXCEPT !.at = "exited"]
    /\ sessions' = [c \in Conns |-> IF sessions[c] = "open" THEN "killed"
                                                           ELSE sessions[c]]
    /\ UNCHANGED SSL_ENABLED
    /\ UNCHANGED <<searchVars, sessionVars, configVars, algoVars>>

\* ------------------------------------- search_algorithms.py, benchmark.py

\* query in line, of two strings: query is a substring of line.
SubstringOf(q, line) ==
    \E i \in 1..(Len(line) + 1) : \E j \in (i - 1)..Len(line) :
        SubSeq(line, i, j) = q

\* search_algorithms.linear_search: for line in file_data: if query in line
LinearSearch(ls, q) == \E i \in 1..Len(ls) : SubstringOf(q, ls[i])

\* search_algorithms.hash_search: query in {line: True for line in file_data}
HashSearch(ls, q) == q \in {ls[i] : i \in 1..Len(ls)}

\* benchmark.naive_search: for line in file_content: if line.strip() == query
NaiveSearch(ls, q) == \E i \in 1..Len(ls) : Strip(ls[i]) = q

\* benchmark.hash_set_search: query in set(file_content)
HashSetSearch(ls, q) == q \in {ls[i] : i \in 1..Len(ls)}

\* The boolean a function returned, as it prints.
Returned(b) == IF b THEN "True" ELSE "False"
NotRun == [linear |-> None, hash |-> None, naive |-> None, hash_set |-> None]

RunLinearSearch ==
    /\ algoOut.linear = None
    /\ algoOut' = [algoOut EXCEPT
                      !.linear = Returned(LinearSearch(algoIn.lines, algoIn.query))]
    /\ UNCHANGED <<algoIn, searchVars, sessionVars, listenerVars>>

RunHashSearch ==
    /\ algoOut.hash = None
    /\ algoOut' = [algoOut EXCEPT
                      !.hash = Returned(HashSearch(algoIn.lines, algoIn.query))]
    /\ UNCHANGED <<algoIn, searchVars, sessionVars, listenerVars>>

RunNaiveSearch ==
    /\ algoOut.naive = None
    /\ algoOut' = [algoOut EXCEPT
                      !.naive = Returned(NaiveSearch(algoIn.lines, algoIn.query))]
    /\ UNCHANGED <<algoIn, searchVars, sessionVars, listenerVars>>

RunHashSetSearch ==
    /\ algoOut.hash_set = None
    /\ algoOut' = [algoOut EXCEPT
                      !.hash_set = Returned(HashSetSearch(algoIn.lines, algoIn.query))]
    /\ UNCHANGED <<algoIn, searchVars, sessionVars, listenerVars>>

\* ------------------------------------------------------- the environment

\* What a change of the file does to the records of finished calls: they speak
\* of the file as it was, and are dropped.
Forget(f, blank) == [t \in Threads |-> IF InCall(t) THEN f[t] ELSE blank]

FileChanged(d, op) ==
    /\ disk' = d
    /\ lastOp' = op
    /\ pc' = Forget(pc, "idle")
    /\ query' = Forget(query, << >>)
    /\ reread' = Forget(reread, FALSE)
    /\ out' = Forget(out, None)
    /\ hadCache' = Forget(hadCache, FALSE)
    /\ prevSame' = Forget(prevSame, None)
    /\ prevOther' = Forget(prevOther, None)
    /\ touched' = [t \in Threads |-> InCall(t)]
    /\ UNCHANGED <<cached_lines, REREAD_ON_QUERY, buf, whole, cacheSrc>>
    /\ UNCHANGED <<pathVars, sessionVars, listenerVars, algoVars>>

\* A line is appended to the file.
AppendLine ==
    \E l \in EditLines :
        /\ disk.st = "ok"
        /\ Len(disk.lines) < MaxLines
        /\ FileChanged(OkFile(Append(disk.lines, l)), [op |-> "add", line |-> l])

\* A line is removed from the file.
RemoveLine ==
    \E i \in 1..Len(disk.lines) :
        /\ disk.st = "ok"
        /\ FileChanged(
             OkFile(SubSeq(disk.lines, 1, i - 1) \o SubSeq(disk.lines, i + 1, Len(disk.lines))),
             [op |-> "remove", line |-> disk.lines[i]])

\* The file is deleted.
DeleteFile ==
    /\ disk.st # "missing"
    /\ FileChanged(MissingFile, [op |-> "delete", line |-> NoLines])

\* The file is created anew, or truncated, and is readable and empty.
CreateFile ==
    /\ disk # OkFile(NoLines)
    /\ FileChanged(OkFile(NoLines), [op |-> "create", line |-> NoLines])

\* The file is left without read permission.
DenyAccess ==
    /\ disk.st \in {"ok", "undecodable"}
    /\ FileChanged(DeniedFile, [op |-> "deny", line |-> NoLines])

\* The file is overwritten with bytes that are not UTF-8.
CorruptFile ==
    /\ disk.st \in {"ok", "denied"}
    /\ FileChanged(UndecodableFile, [op |-> "corrupt", line |-> NoLines])

\* --------------------------------------------------------- specifications

NoOp == [op |-> "none", line |-> NoLines]

InitCalls ==
    /\ pc = [t \in Threads |-> "idle"]
    /\ query = [t \in Threads |-> << >>]
    /\ reread = [t \in Threads |-> FALSE]
    /\ buf = [t \in Threads |-> NoLines]
    /\ out = [t \in Threads |-> None]
    /\ hadCache = [t \in Threads |-> FALSE]
    /\ prevSame = [t \in Threads |-> None]
    /\ prevOther = [t \in Threads |-> None]
    /\ whole = [t \in Threads |-> NoLines]
    /\ touched = [t \in Threads |-> FALSE]
    /\ cached_lines = NoAttr
    /\ cacheSrc = NoLines
    /\ lastOp = NoOp
    /\ path = [t \in Threads |-> FILE_PATH]

\* One file only, the server's.
InitThreads ==
    /\ InitCalls
    /\ otherFile = MissingFile

\* No session is modelled in detail.
NoSession ==
    /\ hpc = "none"
    /\ peer = "up"
    /\ inbuf = << >>
    /\ data = << >>
    /\ response = None
    /\ connOpen = FALSE
    /\ owed = 0
    /\ greetings = 0
    /\ firstWrite = None
    /\ lastSent = None
    /\ lastRead = NoRead
    /\ served = 0
    /\ overdue = FALSE
    /\ logFailed = FALSE

\* start_server is not modelled.
NoListener ==
    /\ listener = NotStarted
    /\ sessions = [c \in Conns |-> "none"]
    /\ SSL_ENABLED = FALSE
    /\ config = BareConfig("missing")
    /\ loaded = InvalidConfig

\* The search algorithms are not run.
NoAlgo ==
    /\ algoIn = [lines |-> << >>, query |-> << >>]
    /\ algoOut = NotRun

\* The steps of one call after its first test.
Step(t) ==
    \/ CheckExists(t)
    \/ RereadScan(t)
    \/ CheckCache(t)
    \/ BuildRead(t)
    \/ AssignCache(t)
    \/ ScanCache(t)

FileOp ==
    \/ AppendLine
    \/ RemoveLine
    \/ DeleteFile
    \/ CreateFile
    \/ DenyAccess
    \/ CorruptFile

\* Spec: a fresh process (no cache yet), any file, which stays as it is; the
\* caller makes one call of search_string_in_file with any query in either mode.
AllDisks ==
    {OkFile(f) : f \in FilesOver(Strings, MaxLines)}
        \cup {MissingFile, DeniedFile, UndecodableFile}

Init ==
    /\ InitThreads
    /\ NoSession
    /\ NoListener
    /\ NoAlgo
    /\ disk \in AllDisks
    /\ REREAD_ON_QUERY = FALSE

Next ==
    \/ \E q \in Strings, m \in BOOLEAN :
          /\ pc[Caller] = "idle"
          /\ Call(Caller, q, m)
          /\ UNCHANGED <<sessionVars, listenerVars, algoVars>>
    \/ Step(Caller)

Spec == Init /\ [][Next]_vars

\* SpecFile: one caller calling again and again, and the file changes on disk
\* between and during the calls.
InitFile ==
    /\ InitThreads
    /\ NoSession
    /\ NoListener
    /\ NoAlgo
    /\ disk \in {OkFile(f) : f \in FilesOver(EditLines, MaxLines)}
                 \cup {MissingFile, DeniedFile, UndecodableFile}
    /\ REREAD_ON_QUERY = FALSE

NextFile ==
    \/ \E q \in Strings, m \in BOOLEAN :
          Call(Caller, q, m) /\ UNCHANGED <<sessionVars, listenerVars, algoVars>>
    \/ Step(Caller)
    \/ FileOp

SpecFile == InitFile /\ [][NextFile]_vars

\* SpecThreads: the running server. Every handler thread calls
\* search_string_in_file(FILE_PATH, data, REREAD_ON_QUERY); the threads
\* interleave at every step, and the file changes on disk meanwhile.
InitServer ==
    /\ InitThreads
    /\ NoSession
    /\ NoListener
    /\ NoAlgo
    /\ disk \in {OkFile(f) : f \in FilesOver(EditLines, MaxLines)}
    /\ REREAD_ON_QUERY \in BOOLEAN

NextServer ==
    \/ \E t \in Threads, q \in ClientQueries :
          ClientCall(t, q) /\ UNCHANGED <<sessionVars, listenerVars, algoVars>>
    \/ \E t \in Threads : Step(t)
    \/ \E t \in Threads :
          Respond(t) /\ UNCHANGED <<sessionVars, listenerVars, algoVars>>
    \/ FileOp

SpecThreads == InitServer /\ [][NextServer]_vars

\* SpecSession: one session of handle_client from its first statement, in
\* either mode; the client sends messages, closes or resets the connection,
\* and the file changes on disk meanwhile.
SessionDisks ==
    {OkFile(<<(<<"a">>)>>), OkFile(NoLines), MissingFile, DeniedFile, UndecodableFile}

InitSession ==
    /\ InitThreads
    /\ NoListener
    /\ NoAlgo
    /\ disk \in SessionDisks
    /\ REREAD_ON_QUERY \in BOOLEAN
    /\ hpc = "greet"
    /\ peer = "up"
    /\ inbuf = << >>
    /\ data = << >>
    /\ response = None
    /\ connOpen = TRUE
    /\ owed = 0
    /\ greetings = 0
    /\ firstWrite = None
    /\ lastSent = None
    /\ lastRead = NoRead
    /\ served = 0
    /\ overdue = FALSE
    /\ logFailed = FALSE

\* The file is replaced by another while the session lasts: written anew,
\* removed, or left unreadable.
SessionFileOp ==
    \E d \in SessionDisks :
        /\ pc[Caller] # "done"
        /\ d # disk
        /\ FileChanged(d, [op |-> "replace", line |-> NoLines])

NextSession ==
    \/ HandlerGreet
    \/ HandlerRecv
    \/ HandlerSearch
    \/ Step(Caller)
    \/ HandlerResult
    \/ HandlerSend
    \/ ClientSend
    \/ ClientClose
    \/ ClientReset
    \/ SessionFileOp
    \/ BudgetElapses

SpecSession == InitSession /\ [][NextSession]_vars

\* SpecPaths: one process, two files that stay as they are; the caller calls
\* search_string_in_file again and again, on either path, in either mode.
PathFiles == {OkFile(f) : f \in FilesOver(EditLines, MaxLines)}

InitPaths ==
    /\ InitCalls
    /\ NoSession
    /\ NoListener
    /\ NoAlgo
    /\ disk \in PathFiles
    /\ otherFile \in PathFiles
    /\ REREAD_ON_QUERY = FALSE

NextPaths ==
    \/ \E p \in Paths, q \in Strings, m \in BOOLEAN :
          CallAt(Caller, p, q, m) /\ UNCHANGED <<sessionVars, listenerVars, algoVars>>
    \/ Step(Caller)

SpecPaths == InitPaths /\ [][NextPaths]_vars

\* A session whose handler thread keeps running: a step of handle_client that
\* is possible and stays possible is taken, as the thread is scheduled while
\* it holds no lock and waits for nothing but its socket. The client is under
\* no such obligation; its messages fit in one read.
NextSessionFair ==
    \/ HandlerGreet
    \/ HandlerRecv
    \/ HandlerSearch
    \/ Step(Caller)
    \/ HandlerResult
    \/ HandlerSend
    \/ ClientSendShort
    \/ ClientClose
    \/ ClientReset

HandlerRuns ==
    /\ WF_vars(HandlerGreet)
    /\ WF_vars(HandlerRecv)
    /\ WF_vars(HandlerSearch)
    /\ WF_vars(Step(Caller))
    /\ WF_vars(HandlerResult)
    /\ WF_vars(HandlerSend)

SpecSessionFair == InitSession /\ [][NextSessionFair]_vars /\ HandlerRuns

\* SpecAlgorithms: the search functions of search_algorithms.py and of
\* benchmark.py, each called once on the same list of lines and query.
InitAlgorithms ==
    /\ InitThreads
    /\ NoSession
    /\ NoListener
    /\ disk = OkFile(NoLines)
    /\ REREAD_ON_QUERY = FALSE
    /\ algoIn \in [lines : FilesOver(Strings, MaxLines), query : Strings]
    /\ algoOut = NotRun

NextAlgorithms ==
    \/ RunLinearSearch
    \/ RunHashSearch
    \/ RunNaiveSearch
    \/ RunHashSetSearch

SpecAlgorithms == InitAlgorithms /\ [][NextAlgorithms]_vars

\* SpecListener: start_server from its first statement, with any
\* configuration file: load_config, the listening socket, the accept loop.
InitListener ==
    /\ InitThreads
    /\ NoSession
    /\ NoAlgo
    /\ disk = OkFile(NoLines)
    /\ REREAD_ON_QUERY = FALSE
    /\ listener = NotStarted
    /\ sessions = [c \in Conns |-> "none"]
    /\ SSL_ENABLED = FALSE
    /\ config \in Configs
    /\ loaded = InvalidConfig

NextListener ==
    \/ StartServer
    \/ ListenerBind
    \/ ListenerAccept
    \/ ListenerWrap
    \/ ListenerInterrupt
    \/ SessionEnds
    \/ ProcessExit

SpecListener == InitListener /\ [][NextListener]_vars

\* ---------------------------------------------------------------- claims

\* The trimmed lines of a list of lines, and whether q is one of them.
TrimmedLines(ls) == {Strip(ls[i]) : i \in 1..Len(ls)}
HasLine(ls, q) == q \in TrimmedLines(ls)
Done(t) == pc[t] = "done"
NonBlank(q) == Strip(q) # << >>

\* C1: a non-empty query that equals a line of the readable file after that
\* line is trimmed is answered STRING EXISTS, in reread mode and in cache mode.
C1_PresentLineFound ==
    (/\ Done(Caller)
     /\ disk.st = "ok"
     /\ query[Caller] # << >>
     /\ HasLine(disk.lines, query[Caller]))
        => out[Caller] = "STRING EXISTS"

\* C1 happens: the query is found in cache mode, the cache unset when the call
\* began, on the second line of the file, a line stored with a blank before it.
C1_Witness ==
    /\ Done(Caller)
    /\ ~reread[Caller]
    /\ ~hadCache[Caller]
    /\ out[Caller] = "STRING EXISTS"
    /\ Len(disk.lines) = 2
    /\ Strip(disk.lines[1]) # query[Caller]
    /\ disk.lines[2] # query[Caller]

\* C2 as stated: every non-empty query that equals no trimmed line of the
\* readable file is answered STRING NOT FOUND in both modes, and STRING EXISTS
\* is never the answer to a query that is no line of the file.
C2_AsStated ==
    (/\ Done(Caller)
     /\ ~touched[Caller]
     /\ disk.st = "ok"
     /\ query[Caller] # << >>
     /\ ~HasLine(disk.lines, query[Caller]))
        => out[Caller] = "STRING NOT FOUND"

\* C2 as amended: for a query with non-whitespace content and a readable file,
\* reread mode, and cache mode with no snapshot yet, answer STRING NOT FOUND
\* when the query is no trimmed line of the file; cache mode with a snapshot
\* answers STRING NOT FOUND when the query is no trimmed line of the snapshot;
\* STRING EXISTS is only ever the answer to a trimmed line of the lines searched.
C2_AbsentQueryNotFound ==
    (Done(Caller) /\ NonBlank(query[Caller])) =>
        /\ (/\ reread[Caller] \/ ~hadCache[Caller]
            /\ ~touched[Caller]
            /\ disk.st = "ok"
            /\ ~HasLine(disk.lines, query[Caller]))
               => out[Caller] = "STRING NOT FOUND"
        /\ (/\ ~reread[Caller]
            /\ hadCache[Caller]
            /\ disk.st = "ok"
            /\ ~HasLine(cached_lines.lines, query[Caller]))
               => out[Caller] = "STRING NOT FOUND"
        /\ out[Caller] = "STRING EXISTS" =>
               HasLine(IF reread[Caller] THEN disk.lines ELSE cached_lines.lines,
                       query[Caller])

\* C2 happens: a cache-mode query that is part of a line of the file, and no
\* line of it, is answered STRING NOT FOUND.
C2_Witness ==
    /\ Done(Caller)
    /\ ~reread[Caller]
    /\ ~touched[Caller]
    /\ disk.st = "ok"
    /\ query[Caller] = <<"a">>
    /\ disk.lines = <<(<<" ", "a", "a", " ">>)>>
    /\ out[Caller] = "STRING NOT FOUND"

\* C3: for a query with non-whitespace content the outcome on a readable file
\* is STRING EXISTS exactly when the trimmed query equals a trimmed line.
C3_TrimBothSides ==
    (/\ Done(Caller)
     /\ disk.st = "ok"
     /\ NonBlank(query[Caller]))
        => (out[Caller] = "STRING EXISTS"
               <=> HasLine(disk.lines, Strip(query[Caller])))

\* C4: on a file that never changed, the same query gets the same outcome
\* string in reread mode and in cache mode.
C4_ModesAgree ==
    (Done(Caller) /\ lastOp = NoOp /\ prevOther[Caller] # None)
        => out[Caller] = prevOther[Caller]

\* C5: at most one thread is building the cache at any time.
Building == {t \in Threads : pc[t] \in {"build", "assign"}}
C5_OneBuilder == Cardinality(Building) <= 1

\* C6: the cache, whenever it is there, is the complete list of lines of one
\* whole read of the file, and no scan runs without it.
C6_WholeIndex ==
    /\ cached_lines.has =>
           cached_lines.lines = [i \in 1..Len(cacheSrc) |-> cacheSrc[i] \o <<NL>>]
    /\ \A t \in Threads : pc[t] = "scan" => cached_lines.has

\* C6 happens: one thread scans the cache of two lines while the other is about
\* to store its own, different read.
C6_Witness ==
    /\ cached_lines.has
    /\ Len(cached_lines.lines) = 2
    /\ \E t, u \in Threads :
          /\ pc[t] = "scan"
          /\ pc[u] = "assign"
          /\ buf[u] # cached_lines.lines

\* C7: once assigned, cached_lines never changes.
C7_Immutable == [][cached_lines.has => cached_lines' = cached_lines]_vars

\* C8: once the cache is built, no later cache-mode query reads the file, and
\* its outcome is decided by the snapshot and the query alone.
C8_SnapshotOnly ==
    /\ (/\ Done(Caller)
        /\ ~reread[Caller]
        /\ hadCache[Caller]
        /\ NonBlank(query[Caller]))
           => out[Caller] = IF HasLine(cached_lines.lines, query[Caller])
                               THEN "STRING EXISTS" ELSE "STRING NOT FOUND"
    /\ (pc[Caller] \in {"build", "assign"}) => ~hadCache[Caller]

\* C9: a reread-mode query is answered from the lines the file holds at that
\* query: a line just added is found, a line just removed is not, whatever the
\* cache holds.
C9_RereadIsFresh ==
    (/\ Done(Caller)
     /\ reread[Caller]
     /\ disk.st = "ok"
     /\ NonBlank(query[Caller]))
        => /\ out[Caller] = IF HasLine(disk.lines, query[Caller])
                               THEN "STRING EXISTS" ELSE "STRING NOT FOUND"
           /\ (lastOp.op = "add" /\ query[Caller] = Strip(lastOp.line))
                 => out[Caller] = "STRING EXISTS"
           /\ (/\ lastOp.op = "remove"
               /\ query[Caller] = Strip(lastOp.line)
               /\ ~HasLine(disk.lines, query[Caller]))
                 => out[Caller] = "STRING NOT FOUND"

\* C9 happens: the line just added is found in reread mode while the cache,
\* built before, does not hold it.
C9_Witness ==
    /\ Done(Caller)
    /\ reread[Caller]
    /\ lastOp.op = "add"
    /\ query[Caller] = Strip(lastOp.line)
    /\ out[Caller] = "STRING EXISTS"
    /\ cached_lines.has
    /\ ~HasLine(cached_lines.lines, query[Caller])

\* C10: the same query issued twice in succession, the file unchanged, gets
\* the same outcome both times.
C10_Idempotent ==
    (Done(Caller) /\ ~touched[Caller] /\ prevSame[Caller] # None)
        => out[Caller] = prevSame[Caller]

\* C10 happens: the first cache-mode call built the cache and failed or found
\* the line, the second is answered from the state the first left.
C10_Witness ==
    /\ Done(Caller)
    /\ ~touched[Caller]
    /\ ~reread[Caller]
    /\ hadCache[Caller]
    /\ prevSame[Caller] = "STRING EXISTS"
    /\ out[Caller] = "STRING EXISTS"
    /\ lastOp.op = "add"

\* ------------------------------------------------- claims on the session

\* The handler left its loop because a write of a response raised.
SendFailed == hpc = "closed" /\ response # None

\* C11: responses are one to one with the messages read and in their order:
\* no message is read while a response is owed, and a session that ends, its
\* writes not having failed, has written a response for every message it read.
C11_OneToOne ==
    /\ owed <= 1
    /\ hpc = "recv" => owed = 0
    /\ (hpc = "closed" /\ ~SendFailed) => owed = 0

\* C12: the greeting is the first line written to the client, it is written
\* once, and nothing is read before it: a handler past its first write has
\* written the greeting exactly once and first, and a handler that has not
\* written it (it is about to, or the write raised because the peer was gone)
\* has read nothing and written nothing.
C12_GreetingFirst ==
    /\ greetings <= 1
    /\ firstWrite # "response"
    /\ hpc \notin {"greet", "died"} => (greetings = 1 /\ firstWrite = "greeting")
    /\ hpc \in {"greet", "died"} =>
          /\ greetings = 0
          /\ lastRead = NoRead
          /\ lastSent = None
          /\ owed = 0

\* C12 happens: the greeting written once, a query read after it and its
\* response written.
C12_Witness ==
    /\ greetings = 1
    /\ firstWrite = "greeting"
    /\ lastRead.content = "text"
    /\ lastSent = ResponseLine("STRING EXISTS")

\* C13: a message that is empty or whitespace only after decoding is answered
\* ERROR: EMPTY QUERY whatever the file is, with no call on the file, and
\* the session stays open and reads again while the client is there.
C13_EmptyQuery ==
    lastRead.content = "blank" =>
        /\ hpc \in {"send", "recv", "closed"}
        /\ pc[Caller] = "idle"
        /\ hpc = "send" => response = "ERROR: EMPTY QUERY"
        /\ hpc = "recv" => lastSent = ResponseLine("ERROR: EMPTY QUERY")
        /\ peer = "up" => (hpc \in {"send", "recv"} /\ connOpen)

\* C13 happens: the file removed during the session, a blank message was
\* answered ERROR: EMPTY QUERY and the handler reads again.
C13_Witness ==
    /\ lastRead.content = "blank"
    /\ disk.st = "missing"
    /\ lastOp.op = "replace"
    /\ hpc = "recv"
    /\ connOpen
    /\ lastSent = ResponseLine("ERROR: EMPTY QUERY")

\* ------------------------------------------ claims on errors of the file

\* C14: a non-empty query executed while the file does not exist is answered
\* ERROR: FILE NOT FOUND in both modes, also when the file is removed between
\* the existence check and the open: no call ends with the error text of an
\* open that found no file.
C14_MissingIsNotFound ==
    (Done(Caller) /\ NonBlank(query[Caller])) =>
        /\ (disk.st = "missing" /\ ~touched[Caller])
              => out[Caller] = "ERROR: FILE NOT FOUND"
        /\ out[Caller] \notin {RereadError(MissingFile), CachedReadError(MissingFile)}

\* The outcomes a failure to open or read the file is reported as.
FileErrors ==
    {"ERROR: FILE NOT FOUND"}
        \cup {RereadError(d) : d \in {MissingFile, DeniedFile, UndecodableFile}}
        \cup {CachedReadError(d) : d \in {MissingFile, DeniedFile, UndecodableFile}}
BuildErrors == {CachedReadError(d) : d \in {MissingFile, DeniedFile, UndecodableFile}}

\* C15: a failure to open or read the file ends that query only. The call
\* returns an outcome string; while the client is there the session is
\* closed by nothing but an undecodable message, so after an error response
\* it is open; a failed build leaves the cache unset; and a query made on a
\* readable file is answered found or not found from the lines it searched,
\* the file in reread mode and after a build, the snapshot otherwise.
C15_FileErrorsPerQuery ==
    /\ (hpc = "searching" /\ Done(Caller)) =>
          /\ out[Caller] \in {"STRING EXISTS", "STRING NOT FOUND"} \cup FileErrors
          /\ connOpen
    /\ (hpc \in {"closed", "died"} /\ peer = "up") => lastRead.content = "undecodable"
    /\ (Done(Caller) /\ out[Caller] \in BuildErrors) => ~cached_lines.has
    /\ (Done(Caller) /\ disk.st = "ok" /\ ~touched[Caller]) =>
          out[Caller] =
             IF HasLine(IF reread[Caller] \/ ~hadCache[Caller]
                           THEN disk.lines ELSE cached_lines.lines,
                        query[Caller])
                THEN "STRING EXISTS" ELSE "STRING NOT FOUND"

\* C15 happens: in cache mode the query before was answered with the error of
\* a failed build, the session went on, and this query built the cache from
\* the file, readable again, and found its line.
C15_Witness ==
    /\ lastSent \in {ResponseLine(r) : r \in BuildErrors}
    /\ hpc = "searching"
    /\ Done(Caller)
    /\ ~reread[Caller]
    /\ ~hadCache[Caller]
    /\ cached_lines.has
    /\ out[Caller] = "STRING EXISTS"
    /\ connOpen

\* ------------------------------------------- claims on the end of a session

\* C16: on a disconnection, a read that raises the reset or returns no bytes
\* because the peer closed, the handler leaves its loop and closes the socket
\* with no response for that read.
C16_SilentClose ==
    lastRead.frame \in {"reset", "eof"} =>
        /\ hpc = "closed"
        /\ ~connOpen
        /\ response = None

\* C17: no error ends the listener or another session: the accept loop stops
\* only when the operator interrupts the server, and no open session is ended
\* by anything but that.
C17_ListenerSurvives ==
    /\ listener.at \in {"stopped", "exited"} => listener.cause = "KeyboardInterrupt"
    /\ (\E c \in Conns : sessions[c] = "killed") => listener.cause = "KeyboardInterrupt"

\* The exit keywords.
ExitKeywords == {<<"e", "x", "i", "t">>, <<"q", "u", "i", "t">>}
IsExit(s) == LowerText(s) \in ExitKeywords

\* C18: a message that is an exit keyword in any letter case is answered with
\* a farewell line and the session is closed: the handler never calls the
\* search with it, never answers it with an outcome of the search, and does
\* not read again after it.
C18_ExitKeyword ==
    (lastRead.content = "text" /\ IsExit(data)) =>
        /\ hpc \in {"send", "closed"}
        /\ pc[Caller] = "idle"
        /\ response \notin {"STRING EXISTS", "STRING NOT FOUND"} \cup FileErrors

\* C19: bytes that cannot be decoded are answered ERROR: Unable to decode
\* input. and the session is closed: with the client there, the handler is
\* writing that response or has written it and closed.
C19_DecodeError ==
    (lastRead.content = "undecodable" /\ peer = "up") =>
        /\ hpc \in {"send", "closed"}
        /\ hpc = "send" => response = "ERROR: Unable to decode input."
        /\ hpc = "closed" => lastSent = ResponseLine("ERROR: Unable to decode input.")

\* C20: a message longer than the frame size is answered ERROR: Input data
\* too large. and the session is closed: its first bytes are never searched
\* as a query and its remaining bytes are never read as another message.
C20_Oversize ==
    /\ lastRead.frame # "rest"
    /\ lastRead.frame = "cut" =>
          /\ hpc \in {"send", "closed"}
          /\ pc[Caller] = "idle"
          /\ hpc = "send" => response = "ERROR: Input data too large."
          /\ (hpc = "closed" /\ peer = "up")
                => lastSent = ResponseLine("ERROR: Input data too large.")

\* ------------------------------------------------ claims on limits and time

\* C21: with a limit of N requests per window, a request made when N requests
\* of the same client were accepted within the window is answered ERROR: RATE
\* LIMIT EXCEEDED and does not reach the search. Nothing in the handler waits,
\* so the requests of a session may all fall within one window: for every
\* limit N that is counted past, no more than N queries of the session reach
\* the search.
C21_RateLimited == \A N \in 1..(MaxServed - 1) : served <= N

\* C22: a search whose time budget is spent before it produces a result ends
\* with the outcome ERROR: TIMEOUT.
C22_Timeout ==
    (hpc = "searching" /\ Done(Caller) /\ overdue) => out[Caller] = "ERROR: TIMEOUT"

\* ------------------------------------------- claims on the search algorithms

\* C23: on the same list of lines and the same query the linear scan and the
\* hash lookup return the same boolean: linear_search as hash_search, and
\* naive_search as hash_set_search.
C23_SameResults ==
    /\ (algoOut.linear # None /\ algoOut.hash # None)
          => algoOut.linear = algoOut.hash
    /\ (algoOut.naive # None /\ algoOut.hash_set # None)
          => algoOut.naive = algoOut.hash_set

\* ------------------------------------------------- claims on start_server

\* The configurations that are invalid: the file missing, no linuxpath key,
\* the reference file not there, or SSL switched on with the certificate or
\* the key not there.
SslOn(c) == c.ssl.has /\ c.ssl.text \in {<<"T", "r", "u", "e">>, <<" ", "T", "R", "U", "E", " ">>}
Invalid(c) ==
    \/ c.exists = "missing"
    \/ /\ c.exists = "ok"
       /\ \/ c.linuxpath = ""
          \/ c.linuxpath \notin c.files
          \/ SslOn(c) /\ (c.certfile \notin c.files \/ c.keyfile \notin c.files)

\* C24: for every invalid configuration load_config returns
\* (None, False, False, None, None) and start_server returns with no socket
\* created and no connection accepted.
C24_InvalidConfig ==
    (listener.at # "off" /\ Invalid(config)) =>
        /\ loaded = InvalidConfig
        /\ listener.at = "returned"
        /\ listener.sock = "none"
        /\ \A c \in Conns : sessions[c] = "none"

\* C24 happens: SSL is switched on, the reference file and the certificate are
\* there, the key is not, and start_server has returned.
C24_Witness ==
    /\ listener.at = "returned"
    /\ SslOn(config)
    /\ config.linuxpath \in config.files
    /\ config.certfile \in config.files
    /\ config.keyfile \notin config.files
    /\ loaded = InvalidConfig

\* C25: however start_server leaves its accept loop once the listening socket
\* exists, by KeyboardInterrupt or by OSError, the socket is closed, and no
\* exception leaves start_server while the socket exists.
C25_SocketClosed ==
    /\ listener.at \in {"stopped", "exited"} => listener.sock = "closed"
    /\ listener.at = "crashed" => listener.sock = "none"

\* C25 happens: the loop was left by an OSError of accept or of the handshake
\* while a session was open, and the listening socket is closed.
C25_Witness ==
    /\ listener.at = "stopped"
    /\ listener.cause = "OSError"
    /\ listener.sock = "closed"
    /\ \E c \in Conns : sessions[c] = "open"

\* C27: the listener only accepts and dispatches: while the listening socket
\* is open the accepting thread is at accept, never inside work for one
\* client that the client can stall.
C27_OnlyAccepts ==
    listener.sock = "open" => listener.at = "accept"

\* ---------------------------------------------------- claims on the log

\* C26: a failure to append to the log does not touch the protocol. Whether
\* the append failed or not, the response is the outcome the search returned;
\* after a failed append the handler is about to write that response, its
\* connection open; and while the client is there it writes it and reads again.
C26_LogFailureHarmless ==
    /\ [](logFailed =>
            /\ hpc = "send"
            /\ connOpen
            /\ response \in {"STRING EXISTS", "STRING NOT FOUND"} \cup FileErrors)
    /\ [][(hpc = "searching" /\ hpc' # "searching")
             => (hpc' = "send" /\ response' = out[Caller])]_vars
    /\ [][(logFailed /\ peer = "up" /\ hpc' # hpc)
             => (/\ hpc' = "recv"
                 /\ connOpen'
                 /\ lastSent' = ResponseLine(response))]_vars

\* C26 happens: the append to the log failed for a query that was found, and
\* the handler is about to write STRING EXISTS to a client that is there.
C26_Witness ==
    /\ logFailed
    /\ hpc = "send"
    /\ peer = "up"
    /\ response = "STRING EXISTS"

\* C28: however handle_client ends (its loop left and conn.close() reached, or
\* an exception leaving the function), the client connection is closed.
C28_AlwaysCloses == hpc \in {"closed", "died"} => ~connOpen

\* C29: once the client has closed its end and the handler reads again, the
\* handler leaves its loop: it ends, its connection closed or the function
\* left.
C29_SessionTerminates ==
    (peer = "closed" /\ hpc = "recv") ~> (hpc \in {"closed", "died"})

\* ---------------------------------------------------- claims on the paths

\* C30: a cache-mode call with a non-empty query on a readable file at path P
\* returns what the lines of the file at P give, whatever path the calls
\* before it were made on.
C30_CacheKeyedByPath ==
    (/\ Done(Caller)
     /\ ~reread[Caller]
     /\ NonBlank(query[Caller])
     /\ FileAt(path[Caller]).st = "ok")
        => out[Caller] = ScanLines(ReadLines(FileAt(path[Caller])), query[Caller])

====
